---- MODULE Spec2Model ----
(***************************************************************************)
(* The OpenRouter node: the model-list provider (getModels) and the        *)
(* chat-completion invoker (execute) of OpenRouterNode.node.ts, as a       *)
(* state machine.  Text is a sequence of one-character strings, so that    *)
(* split, trim, replace and JSON.parse are computed on characters.         *)
(***************************************************************************)
EXTENDS Integers, Sequences, FiniteSets, TLC

\* ------------------------------------------------------------------ bounds
\* Most input items of one execute batch.
MaxItems == 3
\* Most configured messages of one item.
MaxMsgs == 2
\* Most frames of one streamed response body.
MaxFrames == 2
\* Most model descriptors of one model-list response.
MaxModels == 3

\* -------------------------------------------------------------------- text
\* The literal 'data: ' of chunk.replace('data: ', '').
DataPrefix == <<"d", "a", "t", "a", ":", " ">>

\* The literal '\n\n' of split('\n\n').
FrameDelimiter == <<"\n", "\n">>

\* The characters String.prototype.trim removes and JSON.parse skips, among
\* those a response text is made of here.
WhiteSpace == {" ", "\n"}

StartsWith(s, p) == /\ Len(s) >= Len(p)
                    /\ SubSeq(s, 1, Len(p)) = p

\* Index of the first occurrence of p in s, 0 when there is none.
RECURSIVE IndexFrom(_, _, _)
IndexFrom(s, p, k) ==
  IF k + Len(p) - 1 > Len(s) THEN 0
  ELSE IF SubSeq(s, k, k + Len(p) - 1) = p THEN k
  ELSE IndexFrom(s, p, k + 1)

IndexOf(s, p) == IndexFrom(s, p, 1)

\* String.prototype.split with a non-empty string separator: the pieces
\* between the non-overlapping occurrences found left to right; always at
\* least one piece, and an empty piece after a trailing separator.
RECURSIVE Split(_, _)
Split(s, sep) ==
  LET k == IndexOf(s, sep)
  IN IF k = 0 THEN <<s>>
     ELSE <<SubSeq(s, 1, k - 1)>> \o Split(SubSeq(s, k + Len(sep), Len(s)), sep)

\* String.prototype.trim.
RECURSIVE TrimLeft(_)
TrimLeft(s) ==
  IF s # <<>> /\ Head(s) \in WhiteSpace THEN TrimLeft(Tail(s)) ELSE s

RECURSIVE TrimRight(_)
TrimRight(s) ==
  IF s # <<>> /\ s[Len(s)] \in WhiteSpace
  THEN TrimRight(SubSeq(s, 1, Len(s) - 1)) ELSE s

Trim(s) == TrimRight(TrimLeft(s))

\* String.prototype.replace with a string pattern: the first occurrence
\* only, wherever it is in the text.
ReplaceFirst(s, p, r) ==
  LET k == IndexOf(s, p)
  IN IF k = 0 THEN s
     ELSE SubSeq(s, 1, k - 1) \o r \o SubSeq(s, k + Len(p), Len(s))

\* (chunk) => chunk.trim() !== ''
RECURSIVE SelectSeqOf(_, _)
SelectSeqOf(chunks, n) ==
  IF n = 0 THEN <<>>
  ELSE LET rest == SelectSeqOf(chunks, n - 1)
       IN IF Trim(chunks[n]) # <<>> THEN Append(rest, chunks[n]) ELSE rest

NonBlank(chunks) == SelectSeqOf(chunks, Len(chunks))

\* -------------------------------------------------------------- JSON.parse
\* JSON.parse on the grammar the response texts of this model can spell:
\* white space, numbers written with digits only, strings without escapes,
\* and arrays of at most one element (there is no comma).  Every other text
\* is a SyntaxError.
Digits == {"1", "2"}

SyntaxError == [syntaxError |-> TRUE]

JsonNumber(s) == [type |-> "number", digits |-> s]
JsonString(s) == [type |-> "string", chars |-> s]
JsonArray(vs) == [type |-> "array", elems |-> vs]

IsNumberText(s) == s # <<>> /\ \A k \in 1..Len(s) : s[k] \in Digits

IsStringText(s) ==
  /\ Len(s) >= 2
  /\ s[1] = "\""
  /\ s[Len(s)] = "\""
  /\ \A k \in 2..(Len(s) - 1) : s[k] \notin {"\"", "\n"}

RECURSIVE JSONParse(_)
JSONParse(text) ==
  LET s == Trim(text)
  IN IF IsNumberText(s) THEN JsonNumber(s)
     ELSE IF IsStringText(s) THEN JsonString(SubSeq(s, 2, Len(s) - 1))
     ELSE IF Len(s) >= 2 /\ s[1] = "[" /\ s[Len(s)] = "]"
     THEN LET inner == SubSeq(s, 2, Len(s) - 1)
          IN IF Trim(inner) = <<>> THEN JsonArray(<<>>)
             ELSE LET v == JSONParse(inner)
                  IN IF v = SyntaxError THEN SyntaxError ELSE JsonArray(<<v>>)
     ELSE SyntaxError

\* ------------------------------------------------------------------ values
\* Error values: an Error carries a message (a sequence of string pieces);
\* a rejection may also carry a value that is no Error.
Error(msg) == [isError |-> TRUE, message |-> msg]
NonError == [isError |-> FALSE]

\* new NodeOperationError(this.getNode(), message): an Error.
NodeOperationError(msg) == Error(msg)

EmptyMessagesError ==
  NodeOperationError(<<"At least one message is required">>)

\* UnsupportedOperationError without the operation in the message.
UnsupportedOperationErrorUnnamed(operation) ==
  NodeOperationError(<<"The operation is not supported">>)

UnsupportedOperationError(operation) ==
  NodeOperationError(<<"The operation \"", operation, "\" is not supported">>)

\* What JSON.parse throws.
JsonSyntaxError == Error(<<"Unexpected token in JSON">>)

\* error instanceof Error ? error.message : 'Unknown error occurred'
ErrorMessage(error) ==
  IF error.isError THEN error.message ELSE <<"Unknown error occurred">>

\* ErrorRecord with the index counted from one.
ErrorRecordOneBased(error, item) ==
  [json |-> [error |-> ErrorMessage(error)], pairedItem |-> [item |-> item + 1]]

\* The record pushed by the catch block of execute.
ErrorRecord(error, item) ==
  [json |-> [error |-> ErrorMessage(error)], pairedItem |-> [item |-> item]]

\* returnData.push({ json: response }) and
\* returnData.push({ json: { streamedResponse: parsedChunks } }).
JsonRecord(response) == [json |-> response]
StreamRecord(parsedChunks) == [json |-> [streamedResponse |-> parsedChunks]]

\* MapMessages building the list back to front.
MapMessagesReversed(messagesValues) ==
  [j \in 1..Len(messagesValues) |->
     [role |-> messagesValues[Len(messagesValues) + 1 - j].role,
      content |-> messagesValues[Len(messagesValues) + 1 - j].content]]

\* .map((message) => ({ role: message.role, content: message.content }))
MapMessages(messagesValues) ==
  [j \in 1..Len(messagesValues) |->
     [role |-> messagesValues[j].role, content |-> messagesValues[j].content]]

\* operation === 'chatCompletion'
IsChatCompletion(operation) == operation = "chatCompletion"

\* NoMessages with the test left out.
NoMessagesNever(messagesInput) == FALSE

\* messagesInput.length === 0
NoMessages(messagesInput) == Len(messagesInput) = 0

\* The body and the request options of the POST.
Body(p) ==
  [model |-> p.model, messages |-> p.messagesInput,
   max_tokens |-> p.max_tokens, temperature |-> p.temperature,
   top_p |-> p.top_p, frequency_penalty |-> p.frequency_penalty,
   presence_penalty |-> p.presence_penalty, stream |-> p.stream]

PostOptions(p, apiKey) ==
  [method |-> "POST",
   url |-> "https://openrouter.ai/api/v1/chat/completions",
   headers |-> [Authorization |-> <<"Bearer ", apiKey>>,
                ContentType |-> "application/json",
                HTTPReferer |-> "https://n8n.io",
                XTitle |-> "n8n OpenRouter Node"],
   body |-> Body(p),
   json |-> ~p.stream,
   encoding |-> IF p.stream THEN "utf8" ELSE "unset"]
\* The streaming branch up to JSON.parse: split on the frame delimiter, drop
\* the blank chunks, remove the first 'data: ' of each chunk and parse it.
\* An entry is SyntaxError where JSON.parse throws.
Chunks(response) == NonBlank(Split(response, FrameDelimiter))

JsonStr(chunk) == ReplaceFirst(chunk, DataPrefix, <<>>)

ParsedChunks(response) ==
  LET chunks == Chunks(response)
  IN [k \in 1..Len(chunks) |-> JSONParse(JsonStr(chunks[k]))]

\* ParseThrows with the parse failures swallowed.
ParseThrowsNever(response) == FALSE

\* chunks.map(...) throws as soon as one JSON.parse throws.
ParseThrows(response) ==
  LET parsedChunks == ParsedChunks(response)
  IN \E k \in 1..Len(parsedChunks) : parsedChunks[k] = SyntaxError

\* Rethrows with the error never thrown again.
RethrowsNever(continueOnFailFlag) == FALSE

\* if (this.continueOnFail()) { ...; continue; } throw error;
Rethrows(continueOnFailFlag) == ~continueOnFailFlag

\* NextIndex staying on the item, which processes it again.
NextIndexStuck(index) == index

\* i++
NextIndex(index) == index + 1

\* ------------------------------------------------------------------ inputs
SeqsUpTo(S, n) == UNION {[1..k -> S] : k \in 0..n}

Operations == {"chatCompletion", "completion"}

\* The entries of messages.messagesValues; an IDataObject may carry keys
\* besides role and content.
ConfiguredMessages ==
  {[role |-> "system", content |-> "be brief"],
   [role |-> "user", content |-> "hello", id |-> "extra"]}

\* The messages collection of one item: with its messagesValues list, or
\* without that key.
MessageCollections ==
  {[hasValues |-> FALSE]} \cup
  {[hasValues |-> TRUE, messagesValues |-> l] :
     l \in SeqsUpTo(ConfiguredMessages, MaxMsgs)}

\* this.getNodeParameter('messages.messagesValues', i, []): the list, or the
\* fallback when the collection has no such key.
GetMessagesValues(messages, fallback) ==
  IF messages.hasValues THEN messages.messagesValues ELSE fallback

\* The parameters of one item, as the host holds them.
ParameterSets ==
  [operation : Operations, model : {"m1"},
   messages : MessageCollections,
   max_tokens : {16}, temperature : {1}, top_p : {1},
   frequency_penalty : {0}, presence_penalty : {0}, stream : BOOLEAN]

\* The parameters of the streaming specification: the stream flag set and
\* one message, with either operation.
StreamParameterSets ==
  {p \in ParameterSets :
     /\ p.stream
     /\ p.messages = [hasValues |-> TRUE,
                      messagesValues |-> <<[role |-> "system", content |-> "be brief"]>>]}

\* What a rejected credential read or request carries.
Rejections == {Error(<<"ETIMEDOUT">>), NonError}

\* Frames of a streamed body: two events, a white-space frame, the '[DONE]'
\* sentinel, a truncated event, a JSON text that has no prefix
\* but holds 'data: ' inside (a body sent as plain JSON), and an event whose
\* JSON holds 'data: ' inside.
FrameOne == DataPrefix \o <<"1">>
FrameTwo == DataPrefix \o <<"2">>
FrameDone == DataPrefix \o <<"[", "D", "O", "N", "E", "]">>
FrameTruncated == DataPrefix \o <<"\"", "1">>
FramePlainJson == <<"\"">> \o DataPrefix \o <<"1", "\"">>
FrameQuotedPrefix == DataPrefix \o FramePlainJson

FrameTexts ==
  {FrameOne, FrameTwo, <<" ">>, FrameDone, FrameTruncated,
   FramePlainJson, FrameQuotedPrefix}

RECURSIVE Join(_, _)
Join(frames, sep) ==
  IF frames = <<>> THEN <<>>
  ELSE IF Len(frames) = 1 THEN frames[1]
  ELSE frames[1] \o sep \o Join(Tail(frames), sep)

\* Bodies of at most n frames separated by a blank line, with or without the
\* delimiter after the last frame.
BodiesOf(frameTexts, n) ==
  UNION {{Join(fs, FrameDelimiter), Join(fs, FrameDelimiter) \o FrameDelimiter} :
           fs \in SeqsUpTo(frameTexts, n)}

StreamBodies == BodiesOf(FrameTexts, MaxFrames)

\* The bodies of the batch specification: the two-event body, a body whose
\* second frame is the sentinel, and the empty body.
BatchBodies ==
  {FrameOne \o FrameDelimiter \o FrameTwo \o FrameDelimiter,
   FrameOne \o FrameDelimiter \o FrameDone \o FrameDelimiter,
   <<>>}

\* Bodies of a non-streaming response, as the transport parsed them.
JsonResponses == {[id |-> "x"], [id |-> "y"]}

Rejected(error) == [kind |-> "rejected", error |-> error]
TextResponse(text) == [kind |-> "text", text |-> text]
JsonResponse(value) == [kind |-> "json", value |-> value]

\* What helpers.request can settle with for the given request options.
ResponsesFor(options, bodies) ==
  {Rejected(e) : e \in Rejections} \cup
  (IF options.json THEN {JsonResponse(v) : v \in JsonResponses}
   ELSE {TextResponse(b) : b \in bodies})

NoValue == [none |-> TRUE]

\* --------------------------------------------------------- model-list values
\* A value of response.data: undefined (no such field), null, a string, a
\* number, an object that is no array, or an array.
Undefined == [kind |-> "undefined"]
ArrayOf(elems) == [kind |-> "array", elems |-> elems]

ModelDescriptors ==
  [id : {"m1", "m2"}, description : {"d1", "d2"}, context_length : {4096}]

NonArrayData ==
  {Undefined, [kind |-> "null"], [kind |-> "string", truthy |-> TRUE],
   [kind |-> "string", truthy |-> FALSE], [kind |-> "number", truthy |-> TRUE],
   [kind |-> "object", truthy |-> TRUE]}

\* What the GET can settle with: a rejection, no body at all (undefined), or
\* a body whose data field is one of the values above.
ModelResponses ==
  {Rejected(e) : e \in Rejections} \cup {[kind |-> "undefined"]} \cup
  {[kind |-> "object", data |-> d] : d \in NonArrayData} \cup
  {[kind |-> "object", data |-> ArrayOf(ms)] :
     ms \in SeqsUpTo(ModelDescriptors, MaxModels)}

\* !models
Falsy(value) ==
  \/ value.kind \in {"undefined", "null"}
  \/ value.kind \in {"string", "number"} /\ ~value.truthy

\* Array.isArray(models)
IsArray(value) == value.kind = "array"

\* !models || !Array.isArray(models)
InvalidFormat(models) == Falsy(models) \/ ~IsArray(models)

InvalidFormatError ==
  NodeOperationError(<<"Invalid response format from OpenRouter API">>)

\* What reading response.data throws when response is undefined.
DataOfUndefinedError ==
  Error(<<"Cannot read properties of undefined (reading 'data')">>)

\* models.map((model) => ({ name: model.id, value: model.id,
\*                          description: model.description }))
MapModels(models) ==
  [k \in 1..Len(models) |->
     [name |-> models[k].id, value |-> models[k].id,
      description |-> models[k].description]]

\* WrapLoadError with the instanceof test failing for every error.
WrapLoadErrorUnknown(error) ==
  NodeOperationError(
    <<"Failed to load models from OpenRouter API: Unknown error">>)

\* The catch block of getModels: every error of the try block is thrown
\* again as a NodeOperationError with the prefixed message.
WrapLoadError(error) ==
  IF error.isError
  THEN NodeOperationError(
         <<"Failed to load models from OpenRouter API: ">> \o error.message)
  ELSE NodeOperationError(
         <<"Failed to load models from OpenRouter API: Unknown error">>)

\* ------------------------------------------------------------------- state
VARIABLES
  nItems,          \* items.length
  continueOnFail,  \* what this.continueOnFail() answers
  pc,              \* position in execute
  apiKey,          \* const { apiKey } = credentials
  i,               \* the loop index
  returnData,      \* the records pushed so far
  config,          \* the parameters of item i as the host returned them
  cur,             \* the locals of the iteration: operation .. stream
  request,         \* the request options of the request in flight
  result,          \* what execute returned
  thrown,          \* what execute threw
  credReads,       \* calls of getCredentials made by execute
  paramReads,      \* indexes whose parameters were read
  posts,           \* POSTs issued, per item index
  inflight,        \* indexes whose request has not settled
  failed,          \* indexes whose processing reached the catch block
  lastResp,        \* what the last request settled with
  gmPc,            \* position in getModels
  gmGets,          \* GETs issued by getModels
  gmResp,          \* what the GET settled with
  gmOptions,       \* what getModels returned
  gmThrown         \* what getModels threw

execVars ==
  <<nItems, continueOnFail, pc, apiKey, i, returnData, config, cur, request,
    result, thrown, credReads, paramReads, posts, inflight, failed, lastResp>>

gmVars == <<gmPc, gmGets, gmResp, gmOptions, gmThrown>>

vars == <<execVars, gmVars>>

InitWith(counts) ==
  /\ nItems \in counts
  /\ continueOnFail \in BOOLEAN
  /\ pc = "start"
  /\ apiKey = NoValue
  /\ i = 0
  /\ returnData = <<>>
  /\ config = NoValue
  /\ cur = NoValue
  /\ request = NoValue
  /\ result = NoValue
  /\ thrown = NoValue
  /\ credReads = 0
  /\ paramReads = {}
  /\ posts = [k \in 0..(nItems - 1) |-> 0]
  /\ inflight = {}
  /\ failed = {}
  /\ lastResp = NoValue
  /\ gmPc = "idle"
  /\ gmGets = 0
  /\ gmResp = NoValue
  /\ gmOptions = NoValue
  /\ gmThrown = NoValue

Init == InitWith(0..MaxItems)

\* ----------------------------------------------------------------- execute
\* GetCredentials with a failed read left to the items: the loop is entered
\* without a key.
GetCredentialsFailureContinues ==
  /\ pc = "start"
  /\ credReads' = credReads + 1
  /\ \/ apiKey' = [key |-> "sk-1"]
     \/ apiKey' = apiKey
  /\ pc' = "loop"
  /\ UNCHANGED <<nItems, continueOnFail, i, returnData, config, cur, request,
                 result, thrown, paramReads, posts, inflight, failed, lastResp>>
  /\ UNCHANGED gmVars

\* const credentials = await this.getCredentials('openRouterApi'), before
\* the loop and outside its try block.
GetCredentials ==
  /\ pc = "start"
  /\ credReads' = credReads + 1
  /\ \/ /\ apiKey' = [key |-> "sk-1"]
        /\ pc' = "loop"
        /\ thrown' = thrown
     \/ \E e \in Rejections :
          /\ thrown' = [error |-> e]
          /\ pc' = "thrown"
          /\ apiKey' = apiKey
  /\ UNCHANGED <<nItems, continueOnFail, i, returnData, config, cur, request,
                 result, paramReads, posts, inflight, failed, lastResp>>
  /\ UNCHANGED gmVars

\* The nine getNodeParameter reads of item i.
ReadParameters(parameterSets) ==
  /\ pc = "loop"
  /\ i < nItems
  /\ \E p \in parameterSets :
       /\ config' = p
       /\ cur' = [operation |-> p.operation, model |-> p.model,
                  messagesInput |->
                    MapMessages(GetMessagesValues(p.messages, <<>>)),
                  max_tokens |-> p.max_tokens, temperature |-> p.temperature,
                  top_p |-> p.top_p,
                  frequency_penalty |-> p.frequency_penalty,
                  presence_penalty |-> p.presence_penalty,
                  stream |-> p.stream]
  /\ paramReads' = paramReads \cup {i}
  /\ pc' = "check"
  /\ UNCHANGED <<nItems, continueOnFail, apiKey, i, returnData, request,
                 result, thrown, credReads, posts, inflight, failed, lastResp>>
  /\ UNCHANGED gmVars

\* The catch block for item i: push the error record and continue, or
\* rethrow.
Catch(error) ==
  /\ failed' = failed \cup {i}
  /\ IF Rethrows(continueOnFail)
     THEN /\ thrown' = [error |-> error]
          /\ pc' = "thrown"
          /\ UNCHANGED <<returnData, i>>
     ELSE /\ returnData' = Append(returnData, ErrorRecord(error, i))
          /\ i' = NextIndex(i)
          /\ pc' = "loop"
          /\ thrown' = thrown

\* returnData.push(record), then the next iteration.
Push(record) ==
  /\ returnData' = Append(returnData, record)
  /\ i' = NextIndex(i)
  /\ pc' = "loop"
  /\ UNCHANGED <<failed, thrown>>

\* The operation test, the empty-list test, and the dispatch of the POST.
CheckAndDispatch ==
  /\ pc = "check"
  /\ IF ~IsChatCompletion(cur.operation)
     THEN /\ Catch(UnsupportedOperationError(cur.operation))
          /\ config' = NoValue
          /\ cur' = NoValue
          /\ UNCHANGED <<request, posts, inflight, lastResp>>
     ELSE IF NoMessages(cur.messagesInput)
     THEN /\ Catch(EmptyMessagesError)
          /\ config' = NoValue
          /\ cur' = NoValue
          /\ UNCHANGED <<request, posts, inflight, lastResp>>
     ELSE /\ request' = PostOptions(cur, apiKey.key)
          /\ posts' = [posts EXCEPT ![i] = @ + 1]
          /\ inflight' = inflight \cup {i}
          /\ lastResp' = NoValue
          /\ pc' = "await"
          /\ UNCHANGED <<config, cur, i, returnData, failed, thrown>>
  /\ UNCHANGED <<nItems, continueOnFail, apiKey, result, credReads, paramReads>>
  /\ UNCHANGED gmVars

\* await this.helpers.request(requestOptions) settles, and the rest of the
\* iteration runs.
RequestSettles(bodies) ==
  /\ pc = "await"
  /\ \E resp \in ResponsesFor(request, bodies) :
       /\ lastResp' = resp
       /\ IF resp.kind = "rejected" THEN Catch(resp.error)
          ELSE IF cur.stream
          THEN IF ParseThrows(resp.text) THEN Catch(JsonSyntaxError)
               ELSE Push(StreamRecord(ParsedChunks(resp.text)))
          ELSE Push(JsonRecord(resp.value))
  /\ inflight' = inflight \ {i}
  /\ request' = NoValue
  /\ config' = NoValue
  /\ cur' = NoValue
  /\ UNCHANGED <<nItems, continueOnFail, apiKey, result, credReads, paramReads,
                 posts>>
  /\ UNCHANGED gmVars

\* return [returnData]
Return ==
  /\ pc = "loop"
  /\ ~(i < nItems)
  /\ result' = [value |-> <<returnData>>]
  /\ pc' = "returned"
  /\ UNCHANGED <<nItems, continueOnFail, apiKey, i, returnData, config, cur,
                 request, thrown, credReads, paramReads, posts, inflight,
                 failed, lastResp>>
  /\ UNCHANGED gmVars

\* --------------------------------------------------------------- getModels
\* getCredentials, then the GET is issued inside the try block.
GetModelsRequest ==
  /\ gmPc = "idle"
  /\ \/ /\ gmGets' = gmGets + 1
        /\ gmPc' = "await"
        /\ gmThrown' = gmThrown
     \/ \E e \in Rejections :
          /\ gmThrown' = [error |-> e]
          /\ gmPc' = "thrown"
          /\ gmGets' = gmGets
  /\ UNCHANGED <<gmResp, gmOptions>>
  /\ UNCHANGED execVars

\* The GET settles: the shape test, the mapping, and the catch block.
GetModelsSettles ==
  /\ gmPc = "await"
  /\ \E resp \in ModelResponses :
       /\ gmResp' = resp
       /\ LET raised ==
                IF resp.kind = "rejected" THEN [error |-> resp.error]
                ELSE IF resp.kind = "undefined"
                THEN [error |-> DataOfUndefinedError]
                ELSE IF InvalidFormat(resp.data)
                THEN [error |-> InvalidFormatError]
                ELSE NoValue
          IN IF raised # NoValue
             THEN /\ gmThrown' = [error |-> WrapLoadError(raised.error)]
                  /\ gmPc' = "thrown"
                  /\ gmOptions' = gmOptions
             ELSE /\ gmOptions' = [value |-> MapModels(resp.data.elems)]
                  /\ gmPc' = "returned"
                  /\ gmThrown' = gmThrown
  /\ gmGets' = gmGets
  /\ UNCHANGED execVars

NextModels == GetModelsRequest \/ GetModelsSettles

SpecModels == Init /\ [][NextModels]_vars

ExecuteStep(parameterSets, bodies) ==
  \/ GetCredentials
  \/ ReadParameters(parameterSets)
  \/ CheckAndDispatch
  \/ RequestSettles(bodies)
  \/ Return

Next == ExecuteStep(ParameterSets, BatchBodies)

Spec == Init /\ [][Next]_vars

InitStream == InitWith({1, 2})

NextStream == ExecuteStep(StreamParameterSets, StreamBodies)

SpecStream == InitStream /\ [][NextStream]_vars
\* ------------------------------------------------------------------ claims
\* The list an item is configured with: messagesValues, or the empty list
\* when the collection has no such key.
ConfiguredList(p) ==
  IF p.messages.hasValues THEN p.messages.messagesValues ELSE <<>>

\* A frame without its leading 'data: ' (a frame that does not start with
\* the prefix is left as it is).
StripLeadingPrefix(frame) ==
  IF StartsWith(frame, DataPrefix)
  THEN SubSeq(frame, Len(DataPrefix) + 1, Len(frame))
  ELSE frame

\* The frames of a body that are neither empty nor white space, in order.
RECURSIVE KeepNonBlank(_)
KeepNonBlank(frames) ==
  IF frames = <<>> THEN <<>>
  ELSE IF \A k \in 1..Len(frames[1]) : frames[1][k] \in WhiteSpace
  THEN KeepNonBlank(Tail(frames))
  ELSE <<frames[1]>> \o KeepNonBlank(Tail(frames))

FramesOf(text) == KeepNonBlank(Split(text, FrameDelimiter))

\* The JSON value of each frame after its leading prefix.
FrameValues(text) ==
  LET frames == FramesOf(text)
  IN [k \in 1..Len(frames) |-> JSONParse(StripLeadingPrefix(frames[k]))]

HasBadFrame(text) ==
  LET values == FrameValues(text)
  IN \E k \in 1..Len(values) : values[k] = SyntaxError

\* r is an error record of item k.
IsErrorRecordOf(r, k) ==
  /\ DOMAIN r = {"json", "pairedItem"}
  /\ DOMAIN r.json = {"error"}
  /\ r.pairedItem = [item |-> k]

\* The step is the end of the processing of item i.
EndsItem == pc \in {"check", "await"} /\ pc' # "await"

\* Item i fails in this step: by its parameters when the step starts at the
\* tests, by what the request settles with when it starts at the await.
ItemFailsNow ==
  IF pc = "check"
  THEN config.operation # "chatCompletion" \/ ConfiguredList(config) = <<>>
  ELSE \/ lastResp'.kind = "rejected"
       \/ config.stream /\ lastResp'.kind = "text" /\ HasBadFrame(lastResp'.text)

\* The success record of item i, from what its request settled with.
SuccessRecordNow ==
  IF config.stream
  THEN [json |-> [streamedResponse |-> ParsedChunks(lastResp'.text)]]
  ELSE [json |-> lastResp'.value]

\* Item i fails in this step with this message, and no request is issued.
FailsWithMessage(msg) ==
  /\ posts' = posts
  /\ pc' # "await"
  /\ IF continueOnFail
     THEN /\ returnData' =
               Append(returnData,
                      [json |-> [error |-> msg], pairedItem |-> [item |-> i]])
          /\ pc' = "loop"
     ELSE /\ pc' = "thrown"
          /\ thrown' = [error |-> [isError |-> TRUE, message |-> msg]]
          /\ returnData' = returnData

\* C1: with continue-on-fail active (and the credentials read), every item
\* adds exactly one record at its own position, the error record paired
\* with its index exactly when the item failed and its success record
\* otherwise; earlier records are kept; execute never throws, and what it
\* returns holds nItems records, the k-th an error record of k exactly when
\* item k failed.
C1_OneRecordPerItem ==
  /\ [](continueOnFail /\ apiKey # NoValue => pc # "thrown")
  /\ [](continueOnFail /\ pc = "returned" =>
          /\ result = [value |-> <<returnData>>]
          /\ Len(returnData) = nItems
          /\ \A k \in 0..(nItems - 1) :
               k \in failed <=> IsErrorRecordOf(returnData[k + 1], k))
  /\ [][continueOnFail /\ EndsItem =>
          /\ pc' = "loop"
          /\ i' = i + 1
          /\ Len(returnData) = i
          /\ Len(returnData') = i + 1
          /\ SubSeq(returnData', 1, i) = returnData
          /\ (i \in failed') = ItemFailsNow
          /\ IF ItemFailsNow
             THEN IsErrorRecordOf(returnData'[i + 1], i)
             ELSE returnData'[i + 1] = SuccessRecordNow]_vars

\* C1 witness: the batch of three with the middle item failed has returned.
C1_Witness ==
  /\ continueOnFail
  /\ pc = "returned"
  /\ nItems = 3
  /\ failed = {1}
  /\ Len(result.value[1]) = 3

\* C2: with continue-on-fail inactive, once an item k has failed execute has
\* thrown the failure and returned nothing, k is the only failed item, and
\* no parameter was read and no POST issued for an index above k.
C2_AbortAtFirstFailure ==
  ~continueOnFail /\ failed # {} =>
    /\ pc = "thrown"
    /\ thrown # NoValue
    /\ result = NoValue
    /\ \E k \in failed :
         /\ failed = {k}
         /\ i = k
         /\ \A j \in paramReads : j <= k
         /\ \A j \in DOMAIN posts : posts[j] > 0 => j <= k

\* C2 witness: item 1 of 3 failed and aborted the batch.
C2_Witness ==
  /\ ~continueOnFail
  /\ nItems = 3
  /\ failed = {1}
  /\ pc = "thrown"
  /\ paramReads = {0, 1}

\* C3 as stated: an item with an empty message list fails with the
\* empty-list error and issues no request, whatever its other parameters.
C3_Original ==
  [][pc = "check" /\ ConfiguredList(config) = <<>> =>
       FailsWithMessage(<<"At least one message is required">>)]_vars

\* C3 amended: an item whose operation is 'chatCompletion' and whose message
\* list is empty (or missing) fails with the empty-list error and issues no
\* request, whatever its model, generation parameters and stream flag.
C3_EmptyListOfChatCompletion ==
  [][/\ pc = "check"
     /\ config.operation = "chatCompletion"
     /\ ConfiguredList(config) = <<>>
     => FailsWithMessage(<<"At least one message is required">>)]_vars

\* C3 witness: item 0, a chat completion without the messagesValues key, has
\* produced the empty-list error record without a POST.
C3_Witness ==
  /\ continueOnFail
  /\ pc = "loop"
  /\ i = 1
  /\ posts[0] = 0
  /\ returnData =
       <<[json |-> [error |-> <<"At least one message is required">>],
          pairedItem |-> [item |-> 0]]>>

\* C4: an item whose operation is not 'chatCompletion' fails with the error
\* whose message names the operation, and issues no request.
C4_UnsupportedOperation ==
  [][pc = "check" /\ config.operation # "chatCompletion" =>
       FailsWithMessage(
         <<"The operation \"", config.operation, "\" is not supported">>)]_vars

\* C4 witness: item 0 with operation 'completion' has produced its error
\* record without a POST.
C4_Witness ==
  /\ continueOnFail
  /\ pc = "loop"
  /\ i = 1
  /\ posts[0] = 0
  /\ returnData =
       <<[json |-> [error |->
                      <<"The operation \"", "completion", "\" is not supported">>],
          pairedItem |-> [item |-> 0]]>>

\* C5 as stated: in streaming mode, for a body all of whose non-blank frames
\* are JSON after their leading prefix, the record pushed is
\* {json: {streamedResponse: S}} with S the JSON value of each non-blank
\* frame after its leading 'data: ' only, in order.
C5_Original ==
  [][/\ pc = "await"
     /\ config.stream
     /\ lastResp'.kind = "text"
     /\ ~HasBadFrame(lastResp'.text)
     => returnData' =
          Append(returnData,
                 [json |-> [streamedResponse |-> FrameValues(lastResp'.text)]])]_vars

\* C6 as stated: when the response's data is missing or no array, the caller
\* receives the error 'Invalid response format from OpenRouter API', no
\* options, after exactly one GET.
C6_Original ==
  gmPc \in {"thrown", "returned"} /\ gmResp # NoValue /\ gmResp.kind = "object"
    /\ gmResp.data.kind # "array" =>
    /\ gmPc = "thrown"
    /\ gmThrown =
         [error |-> [isError |-> TRUE,
                     message |-> <<"Invalid response format from OpenRouter API">>]]
    /\ gmOptions = NoValue
    /\ gmGets = 1

\* C6 amended: when the response's data is missing or no array, the caller
\* receives the malformed-response error wrapped by the catch block of
\* getModels, with the message 'Failed to load models from OpenRouter API: '
\* followed by 'Invalid response format from OpenRouter API', no options,
\* after exactly one GET.
C6_WrappedInvalidFormat ==
  gmPc \in {"thrown", "returned"} /\ gmResp # NoValue /\ gmResp.kind = "object"
    /\ gmResp.data.kind # "array" =>
    /\ gmPc = "thrown"
    /\ gmThrown =
         [error |-> [isError |-> TRUE,
                     message |-> <<"Failed to load models from OpenRouter API: ",
                                   "Invalid response format from OpenRouter API">>]]
    /\ gmOptions = NoValue
    /\ gmGets = 1

\* C6 witness: a response without a data field has been answered by a throw.
C6_Witness ==
  /\ gmPc = "thrown"
  /\ gmResp # NoValue
  /\ gmResp.kind = "object"
  /\ gmResp.data.kind = "undefined"

\* C7: the messages of the payload in flight have the length of the
\* configured list, and the j-th has the role and content of the j-th
\* configured message.
C7_MessagesPreserved ==
  pc = "await" =>
    LET configured == ConfiguredList(config)
        sent == request.body.messages
    IN /\ Len(sent) = Len(configured)
       /\ Len(sent) > 0
       /\ \A j \in 1..Len(configured) :
            /\ DOMAIN sent[j] = {"role", "content"}
            /\ sent[j].role = configured[j].role
            /\ sent[j].content = configured[j].content

\* C7 witness: a payload of two different messages is in flight.
C7_Witness ==
  /\ pc = "await"
  /\ Len(request.body.messages) = 2
  /\ request.body.messages[1].role = "user"
  /\ request.body.messages[2].role = "system"

\* C8: at most one request is in flight, at most one POST is issued per
\* item, and while the request of item k is in flight execute is waiting
\* for it and no parameter was read and no POST issued for an index above k.
C8_Sequential ==
  /\ Cardinality(inflight) <= 1
  /\ \A k \in DOMAIN posts : posts[k] <= 1
  /\ \A k \in inflight :
       /\ pc = "await"
       /\ k = i
       /\ \A j \in paramReads : j <= k
       /\ \A j \in DOMAIN posts : posts[j] > 0 => j <= k
  /\ \A j \in paramReads : j <= i
  /\ \A j \in DOMAIN posts : posts[j] > 0 => j <= i

\* C8 witness: the request of item 2 is in flight after the request of item
\* 1 failed; each of the three was posted once.
C8_Witness ==
  /\ pc = "await"
  /\ i = 2
  /\ inflight = {2}
  /\ 1 \in failed
  /\ \A k \in 0..2 : posts[k] = 1

\* C9: in streaming mode, when a non-blank frame of the body is not JSON
\* after its prefix, no record with streamedResponse is pushed; with
\* continue-on-fail the item adds exactly one error record paired with its
\* index, otherwise execute throws and returns nothing.
C9_BadFrameFailsItem ==
  [][/\ pc = "await"
     /\ config.stream
     /\ lastResp'.kind = "text"
     /\ HasBadFrame(lastResp'.text)
     => /\ i \in failed'
        /\ IF continueOnFail
           THEN /\ Len(returnData') = Len(returnData) + 1
                /\ SubSeq(returnData', 1, Len(returnData)) = returnData
                /\ IsErrorRecordOf(returnData'[Len(returnData')], i)
                /\ pc' = "loop"
                /\ i' = i + 1
           ELSE /\ pc' = "thrown"
                /\ thrown' # NoValue
                /\ returnData' = returnData
                /\ result' = NoValue]_vars

\* C9 witness: the body of one event followed by the '[DONE]' sentinel has
\* given item 0 an error record and nothing else.
C9_Witness ==
  /\ continueOnFail
  /\ lastResp = [kind |-> "text",
                 text |-> FrameOne \o FrameDelimiter \o FrameDone \o FrameDelimiter]
  /\ failed = {0}
  /\ Len(returnData) = 1
  /\ IsErrorRecordOf(returnData[1], 0)

\* C10 as stated: the credentials are read once per processed item, and a
\* failed read is the failure of an item, which continue-on-fail turns into
\* an error record instead of a throw.
C10_Original ==
  /\ pc = "returned" => credReads = nItems
  /\ continueOnFail /\ nItems > 0 => pc # "thrown"

\* C10 amended: execute reads the credentials exactly once, before the first
\* item and whatever the number of items; a failed read is thrown to the
\* caller whether or not continue-on-fail is active, with no parameter read,
\* no record and no result.
C10_ReadOnceBeforeLoop ==
  /\ credReads = (IF pc = "start" THEN 0 ELSE 1)
  /\ paramReads # {} => apiKey # NoValue
  /\ pc # "start" /\ apiKey = NoValue =>
       /\ pc = "thrown"
       /\ thrown # NoValue
       /\ paramReads = {}
       /\ failed = {}
       /\ returnData = <<>>
       /\ result = NoValue

\* C10 witness: the read failed under continue-on-fail with items waiting.
C10_Witness ==
  /\ continueOnFail
  /\ nItems >= 2
  /\ pc = "thrown"
  /\ apiKey = NoValue
  /\ credReads = 1
====
